---------------------------- MODULE Spec2Model ----------------------------
(***************************************************************************)
(* The session state of the two layout editors of this repository:         *)
(*   simple_drag_editor.py  (SimpleDragEditor, click-to-swap) and          *)
(*   real_drag_drop.py      (RealDragDropEditor, free drag reorder).       *)
(* A state is the content of st.session_state between two script passes;   *)
(* an action is one script pass in which one widget reports an             *)
(* interaction, run up to the st.rerun() (or the exception) that ends it.  *)
(*                                                                         *)
(* Python strings that the code formats and parses again (the sortable     *)
(* items) are sequences of tokens; a field id, a label or a value is one   *)
(* token.  Python lists are sequences indexed from 1; a reference to a     *)
(* LayoutField object is its index in section.fields.                      *)
(***************************************************************************)
EXTENDS Integers, Sequences, FiniteSets, TLC

VARIABLES
    editor,             \* which script this session runs: "simple" or "drag"
    sections,           \* st.session_state.sections
    selected_field,     \* st.session_state.selected_field (simple editor only)
    show_hidden_panel,  \* st.session_state.show_hidden_panel
    last,               \* history: the interaction the last pass handled
    steps               \* history: number of interactions handled so far

vars == <<editor, sections, selected_field, show_hidden_panel, last, steps>>

-----------------------------------------------------------------------------
(* Bounds of the exploration.                                              *)

\* interactions handled in one explored session
MaxSteps == 4

\* the user clicks buttons only in the first MaxRow rows of a rendered list
MaxRow == 2

\* a drag gesture rearranges only the first MaxDrag rows of a sortable list
MaxDrag == 2

\* a direct call of swap_fields names fields among the first MaxPick of the
\* collection of the section
MaxPick == 3

-----------------------------------------------------------------------------
(* Data model: the dataclasses and the seed.                               *)

None == <<>>

LayoutField(id, label, value, field_type, visible, position) ==
    [id |-> id, label |-> label, value |-> value, field_type |-> field_type,
     visible |-> visible, position |-> position]

LayoutSection(name, title, fields, expanded) ==
    [name |-> name, title |-> title, fields |-> fields, expanded |-> expanded]

\* the value of trimble_customer is the one-character string U+2610 (BALLOT
\* BOX), written here by its code point
account_fields ==
    <<
       LayoutField("account_name", "Account Name", "Steed Standard Transport Ltd.", "text", TRUE, 0),
       LayoutField("customer_id_us", "Customer Id TMW US", "", "text", TRUE, 1),
       LayoutField("enterprise_account", "Enterprise Account Number", "16484517", "text", TRUE, 2),
       LayoutField("customer_id_cad", "Customer Id TMW CAD", "Steed Standard Transport - TMWCAN", "text", TRUE, 3),
       LayoutField("division", "Division", "PeopleNet/TMW CAD", "text", TRUE, 4),
       LayoutField("customer_id_aud", "Customer Id TMW AUD", "", "text", TRUE, 5),
       LayoutField("type", "Type", "Customer", "picklist", TRUE, 6),
       LayoutField("parent_child", "Parent or Child Account", "Parent", "picklist", TRUE, 7),
       LayoutField("account_status", "Account Status TMW", "CUSTOMER-(C) Live Customer", "picklist", TRUE, 8),
       LayoutField("timezone", "Account Time Zone (US & CA)", "Eastern Standard Time", "picklist", TRUE, 9),
       LayoutField("tags", "Tags", "", "text", TRUE, 10),
       LayoutField("phone", "Phone TMW", "(519) 271-9924 x230", "phone", TRUE, 11),
       LayoutField("lead_source", "Lead Source", "", "text", TRUE, 12),
       LayoutField("fax", "Fax TMW", "", "phone", TRUE, 13),
       LayoutField("trimble_customer", "Trimble TMS Customer", "U+2610", "checkbox", TRUE, 14),
       LayoutField("website", "Website", "http://www.ssl.ca/", "url", TRUE, 15),
       LayoutField("global_id", "Global ID", "G1005495", "text", TRUE, 16),
       LayoutField("lead_source_detail", "Lead Source Detail", "", "text", TRUE, 17),
       LayoutField("customer_profile", "Customer Profile", "", "text", TRUE, 18),
       LayoutField("support_maintenance", "Support & Maintenance", "18%", "percentage", TRUE, 19),
       LayoutField("account_stage_us", "Account Stage TMW US", "", "text", TRUE, 20),
       LayoutField("drive_link", "Customer Drive Link", "", "url", TRUE, 21),
       LayoutField("account_stage_aud", "Account Stage TMW AUD", "", "text", TRUE, 22),
       LayoutField("account_stage_cad", "Account Stage TMW CAD", "Customer", "picklist", TRUE, 23)
    >>

parent_fields ==
    <<
       LayoutField("parent_us", "Parent Account TMW US", "", "text", TRUE, 0),
       LayoutField("parent_cad", "Parent Account TMW CAD", "", "text", TRUE, 1),
       LayoutField("parent_account", "Parent Account", "", "text", TRUE, 2),
       LayoutField("parent_netsuite", "Parent NetSuite Id", "", "text", TRUE, 3)
    >>

success_fields ==
    <<
       LayoutField("sentiment", "Customer Sentiment", "Average", "picklist", TRUE, 0),
       LayoutField("risk_update", "At Risk Update", "", "text", TRUE, 1),
       LayoutField("risk_status", "Enterprise Risk Status", "", "text", TRUE, 2),
       LayoutField("totango_health", "Totango Customer Health", "Poor", "picklist", TRUE, 3),
       LayoutField("risk_reason", "Enterprise Risk Reason", "", "text", TRUE, 4),
       LayoutField("empty1", "", "", "text", FALSE, 5),
       LayoutField("risk_severity", "Enterprise At-Risk Severity Level", "", "text", TRUE, 6),
       LayoutField("empty2", "", "", "text", FALSE, 7),
       LayoutField("product_risk", "Enterprise Product At Risk", "", "text", TRUE, 8),
       LayoutField("empty3", "", "", "text", FALSE, 9),
       LayoutField("segmentation", "Segmentation Tier", "Tier 5 CS Engage", "picklist", TRUE, 10),
       LayoutField("empty4", "", "", "text", FALSE, 11)
    >>

SeedLayout ==
    << LayoutSection("account_info", "Account Information", account_fields, TRUE),
       LayoutSection("parent_hierarchy", "Parent Hierarchy", parent_fields, TRUE),
       LayoutSection("customer_success", "Customer Success", success_fields, TRUE) >>

\* load_original_layout loading the seed whatever the session holds
load_original_layout_always(secs) == SeedLayout

\* load_original_layout: the seed is loaded only when the sections list is empty
load_original_layout(secs) ==
    IF secs = <<>> THEN SeedLayout ELSE secs

\* init_session_state: a key is set only when the session does not hold it yet
init_session_state(held, default) ==
    IF held = "absent" THEN default ELSE held

-----------------------------------------------------------------------------
(* Pure helpers of the render code.                                        *)

\* Python truthiness of "f.visible and f.label"
IsShown(f) == f.visible /\ f.label # ""

\* "not f.visible" without the test of the label
IsHiddenNoLabel(f) == ~f.visible

\* Python truthiness of "not f.visible and f.label"
IsHidden(f) == ~f.visible /\ f.label # ""

\* one step of a stable sort: index i goes after every index already placed
\* whose position is less than or equal to its own; LastNotAfter is the
\* number of placed indices that stay in front of it
RECURSIVE LastNotAfter(_, _, _, _)
LastNotAfter(fields, placed, position, k) ==
    IF k = 0 THEN 0
    ELSE IF fields[placed[k]].position <= position THEN k
    ELSE LastNotAfter(fields, placed, position, k - 1)

\* one step of a sort that puts index i in front of the indices already
\* placed with its position
InsertBeforeTies(fields, placed, i) ==
    LET k == LastNotAfter(fields, placed, fields[i].position - 1, Len(placed))
    IN  IF k = Len(placed) THEN Append(placed, i)
        ELSE SubSeq(placed, 1, k) \o <<i>> \o SubSeq(placed, k + 1, Len(placed))

InsertByPosition(fields, placed, i) ==
    LET k == LastNotAfter(fields, placed, fields[i].position, Len(placed))
    IN  IF k = Len(placed) THEN Append(placed, i)
        ELSE SubSeq(placed, 1, k) \o <<i>> \o SubSeq(placed, k + 1, Len(placed))

RECURSIVE SortPrefix(_, _)
SortPrefix(fields, n) ==
    IF n = 0 THEN <<>>
    ELSE InsertByPosition(fields, SortPrefix(fields, n - 1), n)

\* a sort that is not stable: a field goes in front of the fields already
\* placed with its position
RECURSIVE SortPrefixBeforeTies(_, _)
SortPrefixBeforeTies(fields, n) ==
    IF n = 0 THEN <<>>
    ELSE InsertBeforeTies(fields, SortPrefixBeforeTies(fields, n - 1), n)

SortedRefsBeforeTies(fields) == SortPrefixBeforeTies(fields, Len(fields))

\* sorted(fields, key=lambda x: x.position) as references: Python's sort is
\* stable, equal positions keep their order in the list
SortedRefs(fields) == SortPrefix(fields, Len(fields))

\* the list the sort produces
SortByPosition(fields) ==
    LET refs == SortedRefs(fields)
    IN  [k \in 1..Len(fields) |-> fields[refs[k]]]

\* render_section: sorted_fields filtered by "f.visible and f.label", as references
VisibleRefs(section) ==
    SelectSeq(SortedRefs(section.fields), LAMBDA i : IsShown(section.fields[i]))

\* render_section: visible_fields
VisibleFields(section) ==
    LET refs == VisibleRefs(section)
    IN  [k \in 1..Len(refs) |-> section.fields[refs[k]]]

\* the rows of a rendered list the explored user interacts with
Rows(list, bound) == 1..(IF Len(list) < bound THEN Len(list) ELSE bound)

\* next(f for f in fields if f.id == field_id) as a reference; 0 stands for
\* the StopIteration that next() raises when no field has the id
FindField(fields, field_id) ==
    LET hits == {i \in 1..Len(fields) : fields[i].id = field_id}
    IN  IF hits = {} THEN 0 ELSE CHOOSE i \in hits : \A j \in hits : i <= j

\* the first section of the list whose name is section_name; 0 when the
\* for loop of swap_fields ends without a match
FindSection(secs, section_name) ==
    LET hits == {i \in 1..Len(secs) : secs[i].name = section_name}
    IN  IF hits = {} THEN 0 ELSE CHOOSE i \in hits : \A j \in hits : i <= j

\* the flag set on every field of the section
SetVisibleWholeSection(secs, si, fi, v) ==
    [secs EXCEPT ![si].fields =
        [i \in 1..Len(secs[si].fields) |-> [secs[si].fields[i] EXCEPT !.visible = v]]]

\* the flag set and the field sent behind the last position of its section
SetVisibleMovesLast(secs, si, fi, v) ==
    [secs EXCEPT ![si].fields[fi].visible = v,
                 ![si].fields[fi].position = Len(secs[si].fields)]

\* field.visible = v on the object that fields[fi] of section si refers to
SetVisible(secs, si, fi, v) ==
    [secs EXCEPT ![si].fields[fi].visible = v]

\* render_section: visible_count and hidden_count of the section header
visible_count(section) ==
    Len(SelectSeq(section.fields, IsShown))

\* hidden_count without the test of the label: placeholders are counted
hidden_count_with_placeholders(section) ==
    Len(SelectSeq(section.fields, LAMBDA f : ~f.visible))

hidden_count(section) ==
    Len(SelectSeq(section.fields, IsHidden))

RECURSIVE SumHidden(_, _)
SumHidden(secs, n) ==
    IF n = 0 THEN 0 ELSE SumHidden(secs, n - 1) + hidden_count(secs[n])

\* render_controls: hidden_count, summed over all sections
total_hidden_count(secs) == SumHidden(secs, Len(secs))

\* the hidden fields of one section as references <<section index, field index>>
HiddenRefsOf(secs, si) ==
    LET idx == SelectSeq([i \in 1..Len(secs[si].fields) |-> i],
                         LAMBDA i : IsHidden(secs[si].fields[i]))
    IN  [k \in 1..Len(idx) |-> <<si, idx[k]>>]

RECURSIVE AllHiddenUpTo(_, _)
AllHiddenUpTo(secs, n) ==
    IF n = 0 THEN <<>> ELSE AllHiddenUpTo(secs, n - 1) \o HiddenRefsOf(secs, n)

\* render_hidden_panel: all_hidden, section by section in collection order
all_hidden(secs) == AllHiddenUpTo(secs, Len(secs))

-----------------------------------------------------------------------------
(* History of the last pass.                                               *)

\* op: the widget that fired; s, f: the section (index) and field (id) it
\* belongs to; sel: selected_field before the pass; items: number of items
\* the sortable returned; ids: the field ids recovered from them, or the
\* two ids of a direct call of swap_fields;
\* raised: the exception that ended the pass, "none" when it ended by rerun;
\* seed: whether the layout was the seed layout before the pass
Pass(op, s, f, items, ids, raised) ==
    [op |-> op, s |-> s, f |-> f, sel |-> selected_field,
     items |-> items, ids |-> ids, raised |-> raised,
     seed |-> (sections = SeedLayout)]

\* a session is explored for MaxSteps interactions, and no further once the
\* sortable has returned a list that is no rearrangement of its items, or
\* once swap_fields has been called with ids the handle button never passes
Open == steps < MaxSteps /\ last.op \notin {"raw", "swap"}

Record(op, s, f) ==
    /\ last' = Pass(op, s, f, 0, <<>>, "none")
    /\ steps' = steps + 1

-----------------------------------------------------------------------------
(* simple_drag_editor.py                                                   *)

\* swap_fields with the two positions assigned one after the other instead
\* of as a tuple: both fields end with the position of the second
swap_fields_sequential(secs, section_name, field1_id, field2_id) ==
    LET si == FindSection(secs, section_name)
    IN  IF si = 0 THEN [secs |-> secs, raised |-> "none"]
        ELSE
          LET fields == secs[si].fields
              f1 == FindField(fields, field1_id)
              f2 == FindField(fields, field2_id)
          IN  IF f1 = 0 \/ f2 = 0
              THEN [secs |-> secs, raised |-> "StopIteration"]
              ELSE
                LET swapped == [fields EXCEPT ![f1].position = fields[f2].position]
                IN  [secs |-> [secs EXCEPT ![si].fields = SortByPosition(swapped)],
                     raised |-> "none"]

\* swap_fields exchanging the two positions by sums and differences, which
\* leaves 0 when both names refer to one field
swap_fields_arithmetic(secs, section_name, field1_id, field2_id) ==
    LET si == FindSection(secs, section_name)
    IN  IF si = 0 THEN [secs |-> secs, raised |-> "none"]
        ELSE
          LET fields == secs[si].fields
              f1 == FindField(fields, field1_id)
              f2 == FindField(fields, field2_id)
          IN  IF f1 = 0 \/ f2 = 0
              THEN [secs |-> secs, raised |-> "StopIteration"]
              ELSE
                LET summed == [fields EXCEPT ![f1].position =
                                   fields[f1].position + fields[f2].position]
                    second == [summed EXCEPT ![f2].position =
                                   summed[f1].position - summed[f2].position]
                    swapped == [second EXCEPT ![f1].position =
                                   second[f1].position - second[f2].position]
                IN  [secs |-> [secs EXCEPT ![si].fields = SortByPosition(swapped)],
                     raised |-> "none"]

\* swap_fields with next(..., None) and a return when a field is not found
swap_fields_ignores_missing(secs, section_name, field1_id, field2_id) ==
    LET si == FindSection(secs, section_name)
    IN  IF si = 0 THEN [secs |-> secs, raised |-> "none"]
        ELSE
          LET fields == secs[si].fields
              f1 == FindField(fields, field1_id)
              f2 == FindField(fields, field2_id)
          IN  IF f1 = 0 \/ f2 = 0
              THEN [secs |-> secs, raised |-> "none"]
              ELSE
                LET swapped == [fields EXCEPT ![f1].position = fields[f2].position,
                                              ![f2].position = fields[f1].position]
                IN  [secs |-> [secs EXCEPT ![si].fields = SortByPosition(swapped)],
                     raised |-> "none"]

\* swap_fields: the positions of the two fields are exchanged and the
\* collection re-sorted; next() raising StopIteration leaves the list as it is
swap_fields(secs, section_name, field1_id, field2_id) ==
    LET si == FindSection(secs, section_name)
    IN  IF si = 0 THEN [secs |-> secs, raised |-> "none"]
        ELSE
          LET fields == secs[si].fields
              f1 == FindField(fields, field1_id)
              f2 == FindField(fields, field2_id)
          IN  IF f1 = 0 \/ f2 = 0
              THEN [secs |-> secs, raised |-> "StopIteration"]
              ELSE
                LET swapped == [fields EXCEPT ![f1].position = fields[f2].position,
                                              ![f2].position = fields[f1].position]
                IN  [secs |-> [secs EXCEPT ![si].fields = SortByPosition(swapped)],
                     raised |-> "none"]

\* the drag handle button without the test that the clicked field differs
\* from the pending one
ClickHandleNoIdCheck(secs, sel, si, fi) ==
    LET section == secs[si]
        field == section.fields[fi]
    IN  IF sel # None /\ sel[1] = section.name
        THEN LET r == swap_fields(secs, section.name, sel[3], field.id)
             IN  [secs |-> r.secs,
                  sel |-> IF r.raised = "none" THEN None ELSE sel,
                  raised |-> r.raised]
        ELSE [secs |-> secs,
              sel |-> <<section.name, field.label, field.id>>,
              raised |-> "none"]

\* the drag handle button without the test that the pending field is in
\* the section of the clicked one
ClickHandleNoSectionCheck(secs, sel, si, fi) ==
    LET section == secs[si]
        field == section.fields[fi]
    IN  IF sel # None /\ sel[3] # field.id
        THEN LET r == swap_fields(secs, section.name, sel[3], field.id)
             IN  [secs |-> r.secs,
                  sel |-> IF r.raised = "none" THEN None ELSE sel,
                  raised |-> r.raised]
        ELSE [secs |-> secs,
              sel |-> <<section.name, field.label, field.id>>,
              raised |-> "none"]

\* the drag handle button recording the tuple with id and label exchanged
ClickHandleSwappedTuple(secs, sel, si, fi) ==
    LET section == secs[si]
        field == section.fields[fi]
    IN  IF sel # None /\ sel[1] = section.name /\ sel[3] # field.id
        THEN LET r == swap_fields(secs, section.name, sel[3], field.id)
             IN  [secs |-> r.secs,
                  sel |-> IF r.raised = "none" THEN None ELSE sel,
                  raised |-> r.raised]
        ELSE [secs |-> secs,
              sel |-> <<section.name, field.id, field.label>>,
              raised |-> "none"]

\* render_field, the drag handle button: swap with the pending field of the
\* same section, or else record this field as the pending selection
ClickHandleResult(secs, sel, si, fi) ==
    LET section == secs[si]
        field == section.fields[fi]
    IN  IF sel # None /\ sel[1] = section.name /\ sel[3] # field.id
        THEN LET r == swap_fields(secs, section.name, sel[3], field.id)
             IN  [secs |-> r.secs,
                  sel |-> IF r.raised = "none" THEN None ELSE sel,
                  raised |-> r.raised]
        ELSE [secs |-> secs,
              sel |-> <<section.name, field.label, field.id>>,
              raised |-> "none"]

ClickHandle(si) ==
    /\ editor = "simple"
    /\ Open
    /\ LET secs == load_original_layout(sections)
           visible_refs == VisibleRefs(secs[si])
       IN  /\ secs[si].expanded
           /\ \E row \in Rows(visible_refs, MaxRow) :
                 LET fi == visible_refs[row]
                     r == ClickHandleResult(secs, selected_field, si, fi)
                 IN  /\ sections' = r.secs
                     /\ selected_field' = r.sel
                     /\ last' = Pass("handle", si, secs[si].fields[fi].id, 0, <<>>, r.raised)
                     /\ steps' = steps + 1
    /\ UNCHANGED <<editor, show_hidden_panel>>

\* the hide button without the lines that clear the selection
HideNeverClears(sel, field) == FALSE

\* the hide button clearing the selection whatever field is hidden
HideAlwaysClears(sel, field) == sel # None

\* render_field, the hide button: the selection is cleared when its id is
\* the id of the field being hidden
HideClears(sel, field) ==
    sel # None /\ sel[3] = field.id

ClickHide(si) ==
    /\ editor = "simple"
    /\ Open
    /\ LET secs == load_original_layout(sections)
           visible_refs == VisibleRefs(secs[si])
       IN  /\ secs[si].expanded
           /\ \E row \in Rows(visible_refs, MaxRow) :
                 LET fi == visible_refs[row]
                     field == secs[si].fields[fi]
                 IN  /\ sections' = SetVisible(secs, si, fi, FALSE)
                     /\ selected_field' =
                           IF HideClears(selected_field, field) THEN None
                           ELSE selected_field
                     /\ Record("hide", si, field.id)
    /\ UNCHANGED <<editor, show_hidden_panel>>

\* render_hidden_panel, an unhide button
ClickUnhide ==
    /\ editor = "simple"
    /\ Open
    /\ show_hidden_panel
    /\ LET secs == load_original_layout(sections)
           hidden == all_hidden(secs)
       IN  \E k \in Rows(hidden, MaxRow) :
              LET ref == hidden[k]
              IN  /\ sections' = SetVisible(secs, ref[1], ref[2], TRUE)
                  /\ Record("show", ref[1], secs[ref[1]].fields[ref[2]].id)
    /\ UNCHANGED <<editor, selected_field, show_hidden_panel>>

\* render_controls, the panel button: rendered only while a field is hidden
ClickPanel ==
    /\ editor = "simple"
    /\ Open
    /\ total_hidden_count(load_original_layout(sections)) > 0
    /\ sections' = load_original_layout(sections)
    /\ show_hidden_panel' = ~show_hidden_panel
    /\ Record("panel", 0, "")
    /\ UNCHANGED <<editor, selected_field>>

\* render_section, the expand/collapse button of a section header
ClickToggle(si) ==
    /\ editor = "simple"
    /\ Open
    /\ LET secs == load_original_layout(sections)
       IN  sections' = [secs EXCEPT ![si].expanded = ~secs[si].expanded]
    /\ Record("toggle", si, "")
    /\ UNCHANGED <<editor, selected_field, show_hidden_panel>>

\* the reset button without "st.session_state.sections = []"
ResetLayoutNoClear(secs) == load_original_layout(secs)

\* the reset button without "st.session_state.selected_field = None"
ResetSelectionKept(sel) == sel

\* render_controls, the reset button
ResetLayout(secs) == load_original_layout(<<>>)

ResetSelection(sel) == None

ClickReset ==
    /\ editor = "simple"
    /\ Open
    /\ sections' = ResetLayout(sections)
    /\ selected_field' = ResetSelection(selected_field)
    /\ Record("reset", 0, "")
    /\ UNCHANGED <<editor, show_hidden_panel>>

\* the ids a direct call of swap_fields passes: ids of fields of the
\* section, and one id that no field has
PickIds(section) ==
    {section.fields[i].id : i \in Rows(section.fields, MaxPick)} \cup {"ghost"}

\* swap_fields called on a section of the layout with any two ids, equal
\* ids and ids of no field included; an exception goes to the caller
SwapCall(si) ==
    /\ editor = "simple"
    /\ Open
    /\ LET secs == load_original_layout(sections)
       IN  \E field1_id, field2_id \in PickIds(secs[si]) :
              LET r == swap_fields(secs, secs[si].name, field1_id, field2_id)
              IN  /\ sections' = r.secs
                  /\ last' = Pass("swap", si, "", 0, <<field1_id, field2_id>>, r.raised)
                  /\ steps' = steps + 1
    /\ UNCHANGED <<editor, selected_field, show_hidden_panel>>

SwapNext == \E si \in DOMAIN sections : SwapCall(si)

\* one script pass: the widget that fired is in one of the sections rendered
\* by render_main_layout, or in the controls, or in the hidden panel
SimpleNext ==
    \/ \E si \in DOMAIN sections : ClickHandle(si)
    \/ \E si \in DOMAIN sections : ClickHide(si)
    \/ ClickUnhide
    \/ ClickPanel
    \/ \E si \in DOMAIN sections : ClickToggle(si)
    \/ ClickReset

-----------------------------------------------------------------------------
(* real_drag_drop.py                                                       *)

\* the two substrings update_field_order searches for
MARKER == "data-field-id=\""
QUOTE == "\""

\* create_field_item: display_value
display_value(field) ==
    IF field.field_type = "url" /\ field.value # ""
    THEN <<"<a href=", QUOTE, field.value, QUOTE, " target=", QUOTE, "_blank",
           QUOTE, ">", field.value, "</a>">>
    ELSE IF field.field_type = "phone" /\ field.value # ""
    THEN <<"<a href=", QUOTE, "tel:", field.value, QUOTE, ">", field.value, "</a>">>
    ELSE <<IF field.value # "" THEN field.value ELSE "--">>

\* create_field_item: the sortable item of a field, the f-string token by token
create_field_item(field, section_name) ==
    <<"<div ", MARKER, field.id, QUOTE, "><div class=", QUOTE, "field-label", QUOTE,
      "><span><span class=", QUOTE, "drag-handle", QUOTE, ">handle</span> ",
      field.label, "</span></div><div class=", QUOTE, "field-value", QUOTE, ">">>
    \o display_value(field) \o <<"</div></div>">>

\* str.find(sub, start) on tokens: the first index >= start holding sub, as a
\* 1-based index; 0 stands for the -1 of a failed search
Find(text, sub, start) ==
    LET hits == {i \in start..Len(text) : text[i] = sub}
    IN  IF hits = {} THEN 0 ELSE CHOOSE i \in hits : \A j \in hits : i <= j

\* update_field_order, lines 300-303: the text between the marker and the
\* next quote; a failed search for the quote gives end = -1, and the slice
\* item_html[start:-1] stops before the last character
ExtractFieldId(item_html) ==
    LET start == Find(item_html, MARKER, 1) + 1
        end == Find(item_html, QUOTE, start)
    IN  IF end = 0 THEN SubSeq(item_html, start, Len(item_html) - 1)
        ELSE SubSeq(item_html, start, end - 1)

\* update_field_order, lines 297-304: items without the marker are skipped
RECURSIVE ExtractOrder(_, _)
ExtractOrder(sorted_items, n) ==
    IF n = 0 THEN <<>>
    ELSE IF Find(sorted_items[n], MARKER, 1) # 0
    THEN Append(ExtractOrder(sorted_items, n - 1), ExtractFieldId(sorted_items[n]))
    ELSE ExtractOrder(sorted_items, n - 1)

\* next(f for f in section.fields if f.id == field_id) for a recovered id
FindFieldByText(fields, field_id) ==
    LET hits == {i \in 1..Len(fields) : <<fields[i].id>> = field_id}
    IN  IF hits = {} THEN 0 ELSE CHOOSE i \in hits : \A j \in hits : i <= j

\* line 308 taking the i-th field of the collection instead of the named one
LookupFieldByIndex(fields, new_order, i) ==
    IF i <= Len(fields) THEN i ELSE 0

\* update_field_order, line 308: the field that entry i of new_order names
LookupField(fields, new_order, i) ==
    FindFieldByText(fields, new_order[i])

\* update_field_order, lines 307-309, from entry i on: each named field gets
\* its index as position; StopIteration ends the loop where it is raised
RECURSIVE AssignPositions(_, _, _)
AssignPositions(fields, new_order, i) ==
    IF i > Len(new_order) THEN [fields |-> fields, raised |-> "none"]
    ELSE LET fi == LookupField(fields, new_order, i)
         IN  IF fi = 0 THEN [fields |-> fields, raised |-> "StopIteration"]
             ELSE AssignPositions([fields EXCEPT ![fi].position = i - 1],
                                  new_order, i + 1)

\* update_field_order without the sort of line 311
update_field_order_no_sort(fields, sorted_items) ==
    LET new_order == ExtractOrder(sorted_items, Len(sorted_items))
    IN  AssignPositions(fields, new_order, 1)

\* update_field_order numbering every field of the sorted collection anew
update_field_order_renumber_all(fields, sorted_items) ==
    LET new_order == ExtractOrder(sorted_items, Len(sorted_items))
        r == AssignPositions(fields, new_order, 1)
        sorted_fields == SortByPosition(r.fields)
    IN  IF r.raised = "none"
        THEN [fields |-> [i \in 1..Len(sorted_fields) |->
                             [sorted_fields[i] EXCEPT !.position = i - 1]],
              raised |-> "none"]
        ELSE r

\* update_field_order storing the sorted visible fields as the collection
update_field_order_visible_only(fields, sorted_items) ==
    LET new_order == ExtractOrder(sorted_items, Len(sorted_items))
        r == AssignPositions(fields, new_order, 1)
    IN  IF r.raised = "none"
        THEN [fields |-> SelectSeq(SortByPosition(r.fields), IsShown), raised |-> "none"]
        ELSE r

\* update_field_order: the fields of the section after the call
update_field_order(fields, sorted_items) ==
    LET new_order == ExtractOrder(sorted_items, Len(sorted_items))
        r == AssignPositions(fields, new_order, 1)
    IN  IF r.raised = "none"
        THEN [fields |-> SortByPosition(r.fields), raised |-> "none"]
        ELSE r

\* lines 418-420 storing the reordered fields in the first section of the
\* layout instead of the section rendered
SortReturnedIntoFirst(si, sortable_items, sorted_items, op) ==
    LET secs == load_original_layout(sections)
        section == secs[si]
        new_order == ExtractOrder(sorted_items, Len(sorted_items))
    IN  /\ IF sorted_items # sortable_items
           THEN LET r == update_field_order(section.fields, sorted_items)
                IN  /\ sections' = [secs EXCEPT ![1].fields = r.fields]
                    /\ last' = Pass(op, si, "", Len(sorted_items), new_order, r.raised)
           ELSE /\ sections' = secs
                /\ last' = Pass(op, si, "", Len(sorted_items), new_order, "none")
        /\ steps' = steps + 1
        /\ UNCHANGED <<editor, selected_field, show_hidden_panel>>

\* lines 418-420 without the comparison of line 418: the order is updated on
\* every return of the sortable
SortReturnedAlways(si, sortable_items, sorted_items, op) ==
    LET secs == load_original_layout(sections)
        section == secs[si]
        new_order == ExtractOrder(sorted_items, Len(sorted_items))
        r == update_field_order(section.fields, sorted_items)
    IN  /\ sections' = [secs EXCEPT ![si].fields = r.fields]
        /\ last' = Pass(op, si, "", Len(sorted_items), new_order, r.raised)
        /\ steps' = steps + 1
        /\ UNCHANGED <<editor, selected_field, show_hidden_panel>>

\* render_section, lines 406-420: the sortable returned sorted_items for the
\* items it was given; the order is updated only when the two lists differ
SortReturned(si, sortable_items, sorted_items, op) ==
    LET secs == load_original_layout(sections)
        section == secs[si]
        new_order == ExtractOrder(sorted_items, Len(sorted_items))
    IN  /\ IF sorted_items # sortable_items
           THEN LET r == update_field_order(section.fields, sorted_items)
                IN  /\ sections' = [secs EXCEPT ![si].fields = r.fields]
                    /\ last' = Pass(op, si, "", Len(sorted_items), new_order, r.raised)
           ELSE /\ sections' = secs
                /\ last' = Pass(op, si, "", Len(sorted_items), new_order, "none")
        /\ steps' = steps + 1
        /\ UNCHANGED <<editor, selected_field, show_hidden_panel>>

\* the rearrangements of a list of n rows that keep every row after the
\* first MaxDrag in place
Gestures(n) ==
    LET w == IF n < MaxDrag THEN n ELSE MaxDrag
    IN  {p \in [1..w -> 1..w] : \A a, b \in 1..w : p[a] = p[b] => a = b}

\* render_section, line 408: the sortable items of the visible fields
SortableItems(section) ==
    LET visible_fields == VisibleFields(section)
    IN  [k \in 1..Len(visible_fields) |->
            create_field_item(visible_fields[k], section.name)] \o <<>>

\* the items in the order a gesture p leaves them
Rearranged(items, p) ==
    [k \in 1..Len(items) |-> items[IF k \in DOMAIN p THEN p[k] ELSE k]] \o <<>>

\* a completed drag gesture on the sortable list of section si
DragSort(si) ==
    /\ editor = "drag"
    /\ Open
    /\ load_original_layout(sections)[si].expanded
    /\ LET sortable_items == SortableItems(load_original_layout(sections)[si])
       IN  /\ sortable_items # <<>>
           /\ \E p \in Gestures(Len(sortable_items)) :
                 SortReturned(si, sortable_items, Rearranged(sortable_items, p), "drag")

\* one defective item list: the items in rendered order with the item of
\* one row damaged
Damaged(items, row, damage) ==
    LET item == items[row]
        m == Find(item, MARKER, 1)
    IN  CASE damage = "no marker" ->
               [items EXCEPT ![row] = SubSeq(item, 1, m - 1) \o SubSeq(item, m + 1, Len(item))]
          [] damage = "no quote" ->
               [items EXCEPT ![row] = SelectSeq(item, LAMBDA t : t # QUOTE)]
          [] damage = "unknown id" ->
               [items EXCEPT ![row] = [item EXCEPT ![m + 1] = "ghost"]]
          [] damage = "duplicate" ->
               [items EXCEPT ![row] = items[IF row < Len(items) THEN row + 1 ELSE 1]]
          [] damage = "missing" ->
               SubSeq(items, 1, row - 1) \o SubSeq(items, row + 1, Len(items))

Damages == {"no marker", "no quote", "unknown id", "duplicate", "missing"}

\* the sortable returns a list that is no rearrangement of the items it got
RawSort(si) ==
    /\ editor = "drag"
    /\ Open
    /\ load_original_layout(sections)[si].expanded
    /\ LET sortable_items == SortableItems(load_original_layout(sections)[si])
       IN  /\ sortable_items # <<>>
           /\ \E row \in Rows(sortable_items, MaxDrag), damage \in Damages :
                 LET sorted_items == Damaged(sortable_items, row, damage)
                 IN  /\ sorted_items # sortable_items
                     /\ SortReturned(si, sortable_items, sorted_items, "raw")

RawNext == \E si \in DOMAIN sections : RawSort(si)

\* render_section, a hide button of the field controls
DragHide(si) ==
    /\ editor = "drag"
    /\ Open
    /\ LET secs == load_original_layout(sections)
           visible_refs == VisibleRefs(secs[si])
       IN  /\ secs[si].expanded
           /\ \E row \in Rows(visible_refs, MaxRow) :
                 LET fi == visible_refs[row]
                 IN  /\ sections' = SetVisible(secs, si, fi, FALSE)
                     /\ Record("hide", si, secs[si].fields[fi].id)
    /\ UNCHANGED <<editor, selected_field, show_hidden_panel>>

\* render_hidden_panel, an unhide button
DragUnhide ==
    /\ editor = "drag"
    /\ Open
    /\ show_hidden_panel
    /\ LET secs == load_original_layout(sections)
           hidden == all_hidden(secs)
       IN  \E k \in Rows(hidden, MaxRow) :
              LET ref == hidden[k]
              IN  /\ sections' = SetVisible(secs, ref[1], ref[2], TRUE)
                  /\ Record("show", ref[1], secs[ref[1]].fields[ref[2]].id)
    /\ UNCHANGED <<editor, selected_field, show_hidden_panel>>

\* render_controls, the panel button
DragPanel ==
    /\ editor = "drag"
    /\ Open
    /\ total_hidden_count(load_original_layout(sections)) > 0
    /\ sections' = load_original_layout(sections)
    /\ show_hidden_panel' = ~show_hidden_panel
    /\ Record("panel", 0, "")
    /\ UNCHANGED <<editor, selected_field>>

\* render_section, the expand/collapse button of a section header
DragToggle(si) ==
    /\ editor = "drag"
    /\ Open
    /\ LET secs == load_original_layout(sections)
       IN  sections' = [secs EXCEPT ![si].expanded = ~secs[si].expanded]
    /\ Record("toggle", si, "")
    /\ UNCHANGED <<editor, selected_field, show_hidden_panel>>

\* render_controls, the reset button
DragResetLayout(secs) == load_original_layout(<<>>)

DragReset ==
    /\ editor = "drag"
    /\ Open
    /\ sections' = DragResetLayout(sections)
    /\ Record("reset", 0, "")
    /\ UNCHANGED <<editor, selected_field, show_hidden_panel>>

DragNext ==
    \/ \E si \in DOMAIN sections : DragSort(si)
    \/ \E si \in DOMAIN sections : DragHide(si)
    \/ DragUnhide
    \/ DragPanel
    \/ \E si \in DOMAIN sections : DragToggle(si)
    \/ DragReset

-----------------------------------------------------------------------------
(* Passes common to both scripts.                                          *)

\* __init__ on a session that holds its keys: init_session_state assigns
\* none of them, load_original_layout loads the seed when the list is empty
Construct(secs) == load_original_layout(secs)

\* a script pass in which no handler writes the session: the script is run
\* again for a widget without effect on it (the Save Layout button)
IdlePass ==
    /\ Open
    /\ sections' = Construct(sections)
    /\ Record("idle", 0, "")
    /\ UNCHANGED <<editor, selected_field, show_hidden_panel>>

-----------------------------------------------------------------------------
\* the session after the first script pass: __init__ on an empty session
Start(script) ==
    /\ editor = script
    /\ sections = load_original_layout(init_session_state("absent", <<>>))
    /\ selected_field = init_session_state("absent", None)
    /\ show_hidden_panel = init_session_state("absent", FALSE)
    /\ last = [op |-> "init", s |-> 0, f |-> "", sel |-> None, items |-> 0,
                ids |-> <<>>, raised |-> "none", seed |-> TRUE]
    /\ steps = 0

Init == Start("simple")

InitDrag == Start("drag")

InitBoth == Start("simple") \/ Start("drag")

Next == SimpleNext

\* a session of simple_drag_editor.py
Spec == Init /\ [][Next]_vars

\* a session of real_drag_drop.py whose sortable returns rearrangements only
SpecDrag == InitDrag /\ [][DragNext]_vars

\* a session of real_drag_drop.py whose sortable may return a defective list
SpecDragRaw == InitDrag /\ [][DragNext \/ RawNext]_vars

\* a session of either script
SpecBoth == InitBoth /\ [][SimpleNext \/ DragNext]_vars

\* a session of simple_drag_editor.py in which swap_fields is also called
\* directly
SpecSwap == Init /\ [][SimpleNext \/ SwapNext]_vars

\* a session of either script with passes that handle no interaction
SpecIdle == InitBoth /\ [][SimpleNext \/ DragNext \/ IdlePass]_vars

\* a session of either script with direct calls of swap_fields and
\* defective returns of the sortable
SpecAll == InitBoth /\ [][SimpleNext \/ SwapNext \/ DragNext \/ RawNext]_vars

-----------------------------------------------------------------------------
(* Vocabulary of the properties.                                           *)

\* the visible-field listing of a section, as the ids of its fields
VisibleIds(section) ==
    LET l == VisibleFields(section)
    IN  [k \in 1..Len(l) |-> <<l[k].id>>] \o <<>>

\* id -> position and id -> visible of a section, as sets of pairs
PositionsOf(section) ==
    {<<section.fields[i].id, section.fields[i].position>> : i \in 1..Len(section.fields)}

VisibilityOf(section) ==
    {<<section.fields[i].id, section.fields[i].visible>> : i \in 1..Len(section.fields)}

PositionOf(section, id) ==
    section.fields[FindField(section.fields, id)].position

\* a is a rearrangement of b: the same entries, each once
IsPermutationOf(a, b) ==
    /\ Len(a) = Len(b)
    /\ {a[i] : i \in 1..Len(a)} = {b[i] : i \in 1..Len(b)}
    /\ Cardinality({a[i] : i \in 1..Len(a)}) = Len(a)

\* the pass being taken handles the return of the sortable of a section
SortPass == last'.op \in {"drag", "raw"}

\* the pass being taken handles a click on the drag handle of field last'.f
\* of section last'.s while a selection is pending
HandlePassOnPending == last'.op = "handle" /\ selected_field # None

-----------------------------------------------------------------------------
(* C1..C10                                                                 *)

\* C1: in every reachable state the visible-field listing of every section
\* holds no field with an empty label, no field with visible = FALSE, and
\* its positions are strictly ascending.
C1_ListingStrictlyAscending ==
    \A si \in 1..Len(sections) :
        LET l == VisibleFields(sections[si])
        IN  \A k \in 1..Len(l) :
                /\ l[k].label # ""
                /\ l[k].visible
                /\ k < Len(l) => l[k].position < l[k + 1].position

\* C2: a drag whose recovered ids are a rearrangement of the listing of the
\* section leaves the listing in exactly the order of those ids.
C2_ReorderYieldsGivenOrder ==
    [][ (SortPass /\ IsPermutationOf(last'.ids, VisibleIds(sections[last'.s])))
            => VisibleIds(sections'[last'.s]) = last'.ids ]_vars

\* a drag has put the second seed field of Customer Success, the section
\* with placeholders, first while a field of that section is hidden
C2_Witness ==
    /\ last.op = "drag"
    /\ last.s = 3
    /\ last.ids = VisibleIds(sections[3])
    /\ last.ids[1] = <<"risk_update">>
    /\ \E i \in 1..Len(sections[3].fields) : IsHidden(sections[3].fields[i])

\* C3: a drag whose recovered ids are no rearrangement of the listing of
\* the section leaves the fields of the section as they were and raises
\* MalformedReorderInput.
C3_NonPermutationRejected ==
    [][ (SortPass /\ ~IsPermutationOf(last'.ids, VisibleIds(sections[last'.s])))
            => /\ sections'[last'.s].fields = sections[last'.s].fields
               /\ last'.raised = "MalformedReorderInput" ]_vars

\* C4: when an item returned by the sortable carries no marker, or a marker
\* that does not delimit one id, no field of the section changes position.
C4_UnextractableRejected ==
    [][ (/\ SortPass
         /\ \/ Len(last'.ids) < last'.items
            \/ \E k \in 1..Len(last'.ids) : Len(last'.ids[k]) # 1)
            => PositionsOf(sections'[last'.s]) = PositionsOf(sections[last'.s]) ]_vars

C6_SameSectionSwap ==
    [][ (/\ HandlePassOnPending
         /\ selected_field[1] = sections[last'.s].name
         /\ selected_field[3] # last'.f)
            => LET s == last'.s
                   X == selected_field[3]
                   Y == last'.f
               IN  /\ PositionOf(sections'[s], X) = PositionOf(sections[s], Y)
                   /\ PositionOf(sections'[s], Y) = PositionOf(sections[s], X)
                   /\ \A pr \in PositionsOf(sections[s]) :
                          pr[1] \notin {X, Y} => pr \in PositionsOf(sections'[s])
                   /\ \A t \in 1..Len(sections) :
                          /\ t # s => PositionsOf(sections'[t]) = PositionsOf(sections[t])
                          /\ VisibilityOf(sections'[t]) = VisibilityOf(sections[t])
                   /\ selected_field' = None ]_vars

\* the handle of another field of the section of the pending field has
\* been clicked, and the two fields now stand in exchanged order
C6_Witness ==
    /\ last.op = "handle"
    /\ last.sel # None
    /\ last.sel[1] = sections[last.s].name
    /\ last.sel[3] # last.f
    /\ PositionOf(sections[last.s], last.sel[3]) # PositionOf(SeedLayout[last.s], last.sel[3])

\* C7: a click on the handle of a field Z of another section than the one
\* of the pending field makes Z the pending selection and changes no
\* position in any section.
C7_OtherSectionReselects ==
    [][ (/\ HandlePassOnPending
         /\ selected_field[1] # sections[last'.s].name)
            => /\ selected_field' # None
               /\ selected_field'[1] = sections[last'.s].name
               /\ selected_field'[3] = last'.f
               /\ \A t \in 1..Len(sections) :
                      PositionsOf(sections'[t]) = PositionsOf(sections[t]) ]_vars

\* the handle of a field of another section than the pending one has been
\* clicked
C7_Witness ==
    /\ last.op = "handle"
    /\ last.sel # None
    /\ last.sel[1] # sections[last.s].name

\* C8: after a hide the pending selection does not name the field just
\* hidden; hiding the pending field leaves no pending selection.
C8_HideClearsPending ==
    last.op = "hide" =>
        /\ selected_field = None \/ selected_field[3] # last.f
        /\ (last.sel # None /\ last.sel[3] = last.f) => selected_field = None

\* the pending field has been hidden
C8_Witness ==
    /\ last.op = "hide"
    /\ last.sel # None
    /\ last.sel[1] = sections[last.s].name
    /\ last.sel[3] = last.f

\* C9: after a reset the layout is the seed layout: three sections in the
\* fixed order with 24, 4 and 12 fields, every field with its seed
\* attributes.
C9_ResetYieldsSeed ==
    last.op = "reset" =>
        /\ sections = SeedLayout
        /\ [t \in 1..Len(sections) |-> sections[t].name] =
              <<"account_info", "parent_hierarchy", "customer_success">>
        /\ [t \in 1..Len(sections) |-> Len(sections[t].fields)] = <<24, 4, 12>>
        /\ \E i \in 1..Len(sections[1].fields) :
              /\ sections[1].fields[i].id = "account_name"
              /\ sections[1].fields[i].position = 0
              /\ sections[1].fields[i].value = "Steed Standard Transport Ltd."
        /\ {f \in {sections[3].fields[i] : i \in 1..Len(sections[3].fields)} :
                f.label = ""} =
           {LayoutField("empty1", "", "", "text", FALSE, 5),
            LayoutField("empty2", "", "", "text", FALSE, 7),
            LayoutField("empty3", "", "", "text", FALSE, 9),
            LayoutField("empty4", "", "", "text", FALSE, 11)}

\* the reset button has been clicked on a layout that was not the seed
C9_Witness ==
    last.op = "reset" /\ ~last.seed

\* C10: after a reset no selection is pending.
C10_ResetClearsPending ==
    last.op = "reset" => selected_field = None

\* the reset button has been clicked while a selection was pending
C10_Witness ==
    last.op = "reset" /\ last.sel # None

-----------------------------------------------------------------------------
(* C11..C20                                                                *)

\* no two fields of the section have the same position value
UniquePositions(section) ==
    \A i, j \in 1..Len(section.fields) :
        i # j => section.fields[i].position # section.fields[j].position

\* the pass being taken calls swap_fields directly, with the ids last'.ids
SwapPass == last'.op = "swap"

\* the section holds a field with this id
Resolves(section, id) == FindField(section.fields, id) # 0

\* C11 as stated: in every reachable state, whatever mutations led to it
\* (drag reorder included), no two fields of a section have the same
\* position value.
C11_PositionsUnique ==
    \A si \in 1..Len(sections) : UniquePositions(sections[si])

\* C11 as amended: a swap, a hide, a show or a reset, taken where the
\* position values are unique within every section, leaves them unique
\* within every section; only a drag reorder is exempt.
C11_NonDragKeepsUnique ==
    [][ (/\ \A si \in 1..Len(sections) : UniquePositions(sections[si])
         /\ ~SortPass)
            => \A si \in 1..Len(sections') : UniquePositions(sections'[si]) ]_vars

\* a swap has exchanged two positions of Customer Success, the section with
\* placeholders
C11_Witness ==
    /\ editor = "simple"
    /\ last.op = "handle"
    /\ last.s = 3
    /\ last.sel # None
    /\ PositionsOf(sections[3]) # PositionsOf(SeedLayout[3])
    /\ UniquePositions(sections[3])

\* C12: swap_fields with two distinct ids of fields of the section, applied
\* a second time with the same ids, gives back the section as it was before
\* the first call: every position and the order of the collection.
C12_SwapTwiceRestores ==
    [][ (/\ SwapPass
         /\ last'.ids[1] # last'.ids[2]
         /\ Resolves(sections[last'.s], last'.ids[1])
         /\ Resolves(sections[last'.s], last'.ids[2]))
            => LET again == swap_fields(sections', sections'[last'.s].name,
                                        last'.ids[1], last'.ids[2])
               IN  /\ again.raised = "none"
                   /\ again.secs = sections
                   /\ sections' # sections ]_vars

\* swap_fields has been called with two distinct ids of the section, one of
\* them the id of a hidden field, and has changed the collection
C12_Witness ==
    /\ last.op = "swap"
    /\ last.ids[1] # last.ids[2]
    /\ Resolves(sections[last.s], last.ids[1])
    /\ Resolves(sections[last.s], last.ids[2])
    /\ IsHidden(sections[last.s].fields[FindField(sections[last.s].fields, last.ids[1])])
    /\ ~last.seed

\* C13: swap_fields with the same id twice, the id of a field of the
\* section, changes nothing in the layout and raises nothing.
C13_SwapSelfUnchanged ==
    [][ (/\ SwapPass
         /\ last'.ids[1] = last'.ids[2]
         /\ Resolves(sections[last'.s], last'.ids[1]))
            => /\ sections' = sections
               /\ last'.raised = "none" ]_vars

\* swap_fields has been called with the same id twice on a layout that is
\* no longer the seed
C13_Witness ==
    /\ last.op = "swap"
    /\ last.ids[1] = last.ids[2]
    /\ Resolves(sections[last.s], last.ids[1])
    /\ ~last.seed

\* C16: swap_fields with an id that no field of the section has raises the
\* StopIteration of next() to its caller (the NotFound of this code), and
\* the layout is then as it was before the call.
C16_SwapUnknownIdRaises ==
    [][ (/\ SwapPass
         /\ \/ ~Resolves(sections[last'.s], last'.ids[1])
            \/ ~Resolves(sections[last'.s], last'.ids[2]))
            => /\ last'.raised = "StopIteration"
               /\ sections' = sections ]_vars

\* swap_fields has been called with the id of a field of the section and an
\* id that no field has, in either order, on a layout that is not the seed
C16_Witness ==
    /\ last.op = "swap"
    /\ last.raised = "StopIteration"
    /\ Resolves(sections[last.s], last.ids[1]) # Resolves(sections[last.s], last.ids[2])
    /\ ~last.seed

\* C14: after a hide of field f of section S, showing f again (the flag set
\* back by the unhide button, nothing else in between) makes the listing of
\* S the sequence it was before the hide.
C14_HideShowRestoresListing ==
    [][ last'.op = "hide"
            => LET s == last'.s
                   fi == FindField(sections'[s].fields, last'.f)
               IN  /\ VisibleIds(sections'[s]) # VisibleIds(sections[s])
                   /\ VisibleIds(SetVisible(sections', s, fi, TRUE)[s])
                          = VisibleIds(sections[s]) ]_vars

\* a field of the seed layout has been hidden and shown again, and the
\* listing of its section is the listing of the seed
C14_Witness ==
    /\ last.op = "show"
    /\ ~last.seed
    /\ VisibleIds(sections[last.s]) = VisibleIds(SeedLayout[last.s])
    /\ VisibilityOf(sections[last.s]) = VisibilityOf(SeedLayout[last.s])

\* C15: in every reachable state the layout has the sections of the seed,
\* and each section the fields of the seed: the same number of fields, no
\* id twice, and for every seed field a field with its id, label, value and
\* kind.
C15_MembershipFixed ==
    /\ Len(sections) = Len(SeedLayout)
    /\ \A si \in 1..Len(sections) :
          LET fs == sections[si].fields
              seed == SeedLayout[si].fields
          IN  /\ sections[si].name = SeedLayout[si].name
              /\ sections[si].title = SeedLayout[si].title
              /\ Len(fs) = Len(seed)
              /\ \A i, j \in 1..Len(fs) : i # j => fs[i].id # fs[j].id
              /\ \A k \in 1..Len(seed) :
                    \E i \in 1..Len(fs) :
                        /\ fs[i].id = seed[k].id
                        /\ fs[i].label = seed[k].label
                        /\ fs[i].value = seed[k].value
                        /\ fs[i].field_type = seed[k].field_type

\* a drag has changed positions in a section of which a field is hidden
C15_Witness ==
    /\ last.op = "drag"
    /\ PositionsOf(sections[last.s]) # PositionsOf(SeedLayout[last.s])
    /\ hidden_count(sections[last.s]) > 0

\* the fields of a section that are no placeholders, as references
LabelledRefs(section) ==
    {i \in 1..Len(section.fields) : section.fields[i].label # ""}

\* C17: in every reachable state the visible count plus the hidden count of
\* a section is the number of its fields with a label (24, 4 and 8); the
\* hidden count of the layout is the sum of the hidden counts of the
\* sections, the number of fields with a label and visible = FALSE; it is 0
\* right after initialization and right after a reset.
C17_CountsAddUp ==
    /\ [si \in 1..Len(sections) |->
           visible_count(sections[si]) + hidden_count(sections[si])] = <<24, 4, 8>>
    /\ \A si \in 1..Len(sections) :
          visible_count(sections[si]) + hidden_count(sections[si])
              = Cardinality(LabelledRefs(sections[si]))
    /\ total_hidden_count(sections)
          = hidden_count(sections[1]) + hidden_count(sections[2]) + hidden_count(sections[3])
    /\ total_hidden_count(sections)
          = Cardinality({ref \in UNION {{<<si, i>> : i \in LabelledRefs(sections[si])} :
                                           si \in 1..Len(sections)} :
                            ~sections[ref[1]].fields[ref[2]].visible})
    /\ last.op \in {"init", "reset"} => total_hidden_count(sections) = 0

\* a field of Customer Success, the section with placeholders, has been
\* hidden while a field of another section was hidden already
C17_Witness ==
    /\ last.op = "hide"
    /\ last.s = 3
    /\ hidden_count(sections[3]) > 0
    /\ total_hidden_count(sections) > hidden_count(sections[3])

\* sel is no selection, or one tuple (section name, label, id) of one
\* field of one section of the layout
AtMostOnePending(sel, secs) ==
    \/ sel = None
    \/ /\ Len(sel) = 3
       /\ \E si \in 1..Len(secs) :
             /\ secs[si].name = sel[1]
             /\ \E i \in 1..Len(secs[si].fields) :
                   /\ secs[si].fields[i].id = sel[3]
                   /\ secs[si].fields[i].label = sel[2]

\* C18: the pending selection is none initially; after every pass it is
\* none or names exactly one field of one section; a click on a handle
\* while it is none makes the clicked field the pending selection and
\* changes no position and no visibility.
C18_AtMostOnePending ==
    /\ selected_field = None
    /\ [][ /\ AtMostOnePending(selected_field', sections')
           /\ (last'.op = "handle" /\ selected_field = None)
                 => LET s == last'.s
                        field == sections[s].fields[FindField(sections[s].fields, last'.f)]
                    IN  /\ selected_field' = <<sections[s].name, field.label, last'.f>>
                        /\ \A t \in 1..Len(sections) :
                              /\ PositionsOf(sections'[t]) = PositionsOf(sections[t])
                              /\ VisibilityOf(sections'[t]) = VisibilityOf(sections[t]) ]_vars

\* a handle has been clicked while nothing was pending, on a layout in
\* which a swap had been made before
C18_Witness ==
    /\ last.op = "handle"
    /\ last.sel = None
    /\ selected_field # None
    /\ selected_field[3] = last.f
    /\ ~last.seed

\* C19: a pass that handles the return of the sortable of section S changes
\* the position of no field whose id is not among the recovered ids; every
\* hidden field and every placeholder of S has the position it had.
C19_ReorderKeepsAbsentFields ==
    [][ SortPass
            => LET s == last'.s
                   named == {last'.ids[k] : k \in 1..Len(last'.ids)}
               IN  \A i \in 1..Len(sections[s].fields) :
                      LET field == sections[s].fields[i]
                      IN  (<<field.id>> \notin named \/ ~IsShown(field))
                              => /\ Resolves(sections'[s], field.id)
                                 /\ PositionOf(sections'[s], field.id) = field.position ]_vars

\* a drag has renumbered the listing of a section and a hidden field of the
\* section has kept a position that a listed field now has too
C19_Witness ==
    /\ last.op = "drag"
    /\ \E i, j \in 1..Len(sections[last.s].fields) :
          /\ IsHidden(sections[last.s].fields[i])
          /\ IsShown(sections[last.s].fields[j])
          /\ sections[last.s].fields[i].position = sections[last.s].fields[j].position

\* C20: a hide or a show of field f of section S sets the visible flag of f
\* and changes nothing else: every field of every section is where it was in
\* its collection, with the position it had and, f apart, the flag it had.
C20_VisibilityOnlyFlag ==
    [][ last'.op \in {"hide", "show"}
            => /\ Len(sections') = Len(sections)
               /\ \A t \in 1..Len(sections) :
                     /\ Len(sections'[t].fields) = Len(sections[t].fields)
                     /\ \A i \in 1..Len(sections[t].fields) :
                           LET before == sections[t].fields[i]
                               after == sections'[t].fields[i]
                           IN  /\ after.id = before.id
                               /\ after.position = before.position
                               /\ IF t = last'.s /\ before.id = last'.f
                                  THEN /\ before.visible = (last'.op = "hide")
                                       /\ after.visible = (last'.op = "show")
                                  ELSE after.visible = before.visible ]_vars

\* a field has been shown again while another field is still hidden
C20_Witness ==
    /\ last.op = "show"
    /\ total_hidden_count(sections) > 0

-----------------------------------------------------------------------------
(* C21..C30                                                                *)

\* the place of the field with this id in the collection of the section
IndexOf(section, id) == FindField(section.fields, id)

\* C21: a pass that swaps two fields of section S or handles a return of the
\* sortable of S, ended by a rerun or by an exception, leaves every other
\* section as it was: its fields, their positions and flags, their order.
C21_OtherSectionsUntouched ==
    [][ (\/ SwapPass
         \/ SortPass
         \/ /\ HandlePassOnPending
            /\ selected_field[1] = sections[last'.s].name
            /\ selected_field[3] # last'.f)
            => \A t \in 1..Len(sections) :
                  t # last'.s => sections'[t] = sections[t] ]_vars

\* a defective return of the sortable of the second section has ended its
\* pass by an exception while the first section was no longer as in the seed
C21_Witness ==
    /\ last.op = "raw"
    /\ last.raised = "StopIteration"
    /\ last.s = 2
    /\ sections[2].fields # SeedLayout[2].fields
    /\ sections[1].fields # SeedLayout[1].fields

\* C22: when the sortable returns the items in the order they were rendered
\* in, the pass changes nothing in the layout: no position, and no
\* collection is sorted again.
C22_SameOrderNoUpdate ==
    [][ (last'.op = "drag" /\ last'.ids = VisibleIds(sections[last'.s]))
            => sections' = sections ]_vars

\* the sortable of a section has returned the rendered order while the
\* first listed field of the section was not at position 0: an update would
\* have renumbered it
C22_Witness ==
    /\ last.op = "drag"
    /\ last.ids = VisibleIds(sections[last.s])
    /\ VisibleFields(sections[last.s])[1].position # 0

\* in the listing of the section, fields with equal positions stand in the
\* order of the collection
TiesFollowCollection(section) ==
    LET refs == VisibleRefs(section)
    IN  \A a, b \in 1..Len(refs) :
           (a < b /\ section.fields[refs[a]].position = section.fields[refs[b]].position)
               => refs[a] < refs[b]

\* C23: after a drag reorder two fields of the section with equal positions
\* stand in the collection in the order they had in it before the reorder;
\* and in every listing, fields with equal positions stand in the order of
\* the collection.
C23_TiesKeepPriorOrder ==
    [][ /\ \A t \in 1..Len(sections') : TiesFollowCollection(sections'[t])
        /\ last'.op = "drag"
              => LET before == sections[last'.s]
                     after == sections'[last'.s]
                 IN  \A i, j \in 1..Len(after.fields) :
                        (i < j /\ after.fields[i].position = after.fields[j].position)
                            => IndexOf(before, after.fields[i].id)
                                   < IndexOf(before, after.fields[j].id) ]_vars

\* a drag has left a hidden field and a listed field of Account Information
\* at one position, the hidden one in front in the collection
C23_Witness ==
    /\ last.op = "drag"
    /\ last.s = 1
    /\ \E i, j \in 1..Len(sections[1].fields) :
          /\ i < j
          /\ IsHidden(sections[1].fields[i])
          /\ IsShown(sections[1].fields[j])
          /\ sections[1].fields[i].position = sections[1].fields[j].position

\* C24: the construction that opens every pass changes nothing in a session
\* that holds a layout: the list of sections is never empty between two
\* passes, so load_original_layout leaves it as it is, and a pass in which
\* no handler writes retains every position, every visible and expanded
\* flag, the pending selection and the panel flag.
C24_ConstructionOncePerSession ==
    [][ /\ sections # <<>>
        /\ Construct(sections) = sections
        /\ Construct(<<>>) = SeedLayout
        /\ last'.op = "idle"
              => /\ sections' = sections
                 /\ selected_field' = selected_field
                 /\ show_hidden_panel' = show_hidden_panel ]_vars

\* a pass without handler has run on a session with a pending selection, a
\* collapsed section and a layout that is not the seed
C24_Witness ==
    /\ last.op = "idle"
    /\ ~last.seed
    /\ selected_field # None
    /\ \E t \in 1..Len(sections) : ~sections[t].expanded

\* the flags of the sections, and the layout without them
ExpandedOf(secs) == [t \in 1..Len(secs) |-> secs[t].expanded]

FieldsOf(secs) == [t \in 1..Len(secs) |-> secs[t].fields]

C26_PlaceholdersUntouched ==
    /\ UNION {{<<si, sections[si].fields[i].id>> :
                  i \in {j \in 1..Len(sections[si].fields) :
                            sections[si].fields[j].label = ""}} :
              si \in 1..Len(sections)}
          = {<<3, "empty1">>, <<3, "empty2">>, <<3, "empty3">>, <<3, "empty4">>}
    /\ \A si \in 1..Len(sections) :
          \A i \in 1..Len(sections[si].fields) :
              LET field == sections[si].fields[i]
              IN  field.label = ""
                     => /\ ~field.visible
                        /\ field.position = PositionOf(SeedLayout[si], field.id)
                        /\ last.f # field.id
                        /\ \A k \in 1..Len(last.ids) : last.ids[k] # <<field.id>>
                        /\ selected_field = None \/ selected_field[3] # field.id

\* a field of Customer Success has been shown again from the hidden panel,
\* which lists no placeholder
C26_Witness ==
    /\ last.op = "show"
    /\ last.s = 3
    /\ show_hidden_panel

\* C27: in every reachable state of simple_drag_editor.py the positions of
\* a section with n fields are the integers 0..n-1, each the position of
\* one field.
C27_PositionsArePermutation ==
    \A si \in 1..Len(sections) :
        LET fields == sections[si].fields
        IN  /\ {fields[i].position : i \in 1..Len(fields)} = 0..(Len(fields) - 1)
            /\ \A k \in 0..(Len(fields) - 1) :
                  Cardinality({i \in 1..Len(fields) : fields[i].position = k}) = 1

\* a swap has exchanged two positions of Account Information
C27_Witness ==
    /\ last.op = "handle"
    /\ last.s = 1
    /\ last.sel # None
    /\ PositionsOf(sections[1]) # PositionsOf(SeedLayout[1])

\* sel is no selection, or it names a section of the layout and a field of
\* that section that has a label and is visible
PendingIsListed(sel, secs) ==
    \/ sel = None
    \/ \E si \in 1..Len(secs) :
          /\ secs[si].name = sel[1]
          /\ \E i \in 1..Len(secs[si].fields) :
                /\ secs[si].fields[i].id = sel[3]
                /\ secs[si].fields[i].label = sel[2]
                /\ IsShown(secs[si].fields[i])

\* C28: in simple_drag_editor.py a pending selection names, after every
\* pass, a section of the layout and a visible field with a label of that
\* section; so every swap the handle button makes is between two distinct
\* visible fields of one section and raises nothing.
C28_PendingIsVisibleField ==
    /\ PendingIsListed(selected_field, sections)
    /\ [][ /\ PendingIsListed(selected_field', sections')
           /\ (/\ HandlePassOnPending
               /\ selected_field[1] = sections[last'.s].name
               /\ selected_field[3] # last'.f)
                 => LET fields == sections[last'.s].fields
                        f1 == FindField(fields, selected_field[3])
                        f2 == FindField(fields, last'.f)
                    IN  /\ last'.raised = "none"
                        /\ f1 # 0 /\ f2 # 0 /\ f1 # f2
                        /\ IsShown(fields[f1]) /\ IsShown(fields[f2]) ]_vars

\* a field has been hidden in the section of the pending field, which is
\* still pending
C28_Witness ==
    /\ last.op = "hide"
    /\ selected_field # None
    /\ selected_field = last.sel
    /\ selected_field[1] = sections[last.s].name

\* C29: in every reachable state of either editor the collection of every
\* section is in the order of its positions, smaller or equal positions
\* first.
C29_CollectionSortedByPosition ==
    \A si \in 1..Len(sections) :
        \A i \in 1..(Len(sections[si].fields) - 1) :
            sections[si].fields[i].position <= sections[si].fields[i + 1].position

\* a drag has put the fields of a section in another order than the seed's
C29_Witness ==
    /\ last.op = "drag"
    /\ [i \in 1..Len(sections[last.s].fields) |-> sections[last.s].fields[i].id]
          # [i \in 1..Len(SeedLayout[last.s].fields) |-> SeedLayout[last.s].fields[i].id]

\* the ids of all fields of the layout, section by section
AllIds(secs) ==
    UNION {{secs[t].fields[i].id : i \in 1..Len(secs[t].fields)} : t \in 1..Len(secs)}

\* C30: in simple_drag_editor.py a pass changes the pending selection only
\* when it handles a click on a handle, a hide of the pending field itself
\* (which clears it) or reset (which clears it); a hide of another field, a
\* show, the panel button and a toggle leave it as it is. No two fields of
\* the layout have the same id, whatever their sections.
C30_PendingChangedOnlyBy ==
    [][ /\ Cardinality(AllIds(sections)) = 40
        /\ selected_field' # selected_field
              => \/ last'.op = "handle"
                 \/ /\ last'.op = "hide"
                    /\ selected_field[1] = sections[last'.s].name
                    /\ selected_field[3] = last'.f
                    /\ selected_field' = None
                 \/ /\ last'.op = "reset"
                    /\ selected_field' = None
        /\ (\/ last'.op \in {"show", "panel", "toggle"}
            \/ /\ last'.op = "hide"
               /\ selected_field # None
               /\ selected_field[3] # last'.f)
              => selected_field' = selected_field ]_vars

\* a field of another section than the pending one has been hidden, and the
\* selection is still pending
C30_Witness ==
    /\ last.op = "hide"
    /\ last.sel # None
    /\ last.sel[1] # sections[last.s].name
    /\ selected_field = last.sel

=============================================================================
